---- MODULE Spec2Model ----
(***************************************************************************)
(* A model of orderbook::OrderBook (include/OrderBook.h, OrderBook.cpp)    *)
(* and orderbook::Order (Order.h) of limit-orderbook-cpp.                  *)
(*                                                                         *)
(* Representation.                                                         *)
(*  - An Order object lives in `pool`, keyed by its orderId: the index and *)
(*    the price levels hold shared_ptr<Order> to the same object, so a     *)
(*    fill or a modify is seen through both.  pool is restricted, at the   *)
(*    end of every call, to the objects the book still points to (the      *)
(*    shared_ptr reference count of the book dropping to zero).            *)
(*  - orders_ is the key set of the id index; bids_ and asks_ are          *)
(*    std::map<double, std::vector<OrderPtr>>: functions from the prices   *)
(*    that have a level to the sequence of order ids at that level.  A     *)
(*    key with an empty sequence is an empty level, distinct from no key.  *)
(*  - Prices are integer ticks, tick 0 being the price 0.0 (no operation   *)
(*    checks the price).  A trade price is kept in half ticks              *)
(*    (field price2 = 2 * Trade::price), so the division by 2.0 of         *)
(*    executeTrade is exact as it is on doubles.                           *)
(*  - Timestamps are readings of a clock that never goes back.  Every call *)
(*    happens at a reading `now` at or after the previous one; an Order    *)
(*    handed to addOrder was constructed at some reading <= now.           *)
(*  - Every public operation is one atomic action (the engine is           *)
(*    single-threaded); `call`, `trades` and `steps` describe the last     *)
(*    call: its arguments and result, the Trade records executeTrade       *)
(*    built, and one record per iteration of the inner loop of matchOrders.*)
(*  - tradeCallback_ names the std::function registered as observer        *)
(*    (NoCallback for the empty one); `delivered` lists the invocations    *)
(*    of the callback made during the last call; `replaced` is the         *)
(*    observer the last setTradeCallback call overwrote with a different   *)
(*    observer (NoCallback when it overwrote none).                        *)
(*  - `test` is the position and the local variables of the function of    *)
(*    tests/simple_test.cpp being run, NoTest when the callers are         *)
(*    arbitrary.                                                           *)
(***************************************************************************)
EXTENDS Integers, Sequences, FiniteSets

\* ---------------------------------------------------------------- bounds
MaxId == 3
MaxPrice == 1
MaxQty == 2
MaxClock == 1

OrderIds == 1..MaxId
Prices == 0..MaxPrice
Quantities == 0..MaxQty
Sides == {"BUY", "SELL"}

\* std::uint64_t arithmetic wraps; the width is scaled down to 16 bits so that
\* the modulus is a number the checker can hold.
UintBits == 16
UintMod == 2^UintBits
USub(a, b) == (a - b + UintMod) % UintMod

VARIABLES pool, orders_, bids_, asks_, tradeCallback_, clock, arrival, call,
          trades, delivered, steps, replaced, test

vars == <<pool, orders_, bids_, asks_, tradeCallback_, clock, arrival, call,
          trades, delivered, steps, replaced, test>>

\* ---------------------------------------------------------------- helpers
Min(a, b) == IF a <= b THEN a ELSE b
SetMin(S) == CHOOSE x \in S : \A y \in S : x <= y
SetMax(S) == CHOOSE x \in S : \A y \in S : x >= y
Range(s) == {s[i] : i \in DOMAIN s}

\* Order::Order(id, s, p, qty): the timestamp is the clock reading at
\* construction.
Order(id, s, p, qty, ts) ==
    [orderId |-> id, side |-> s, price |-> p, quantity |-> qty, timestamp |-> ts]

\* The null OrderPtr.
NullOrder == Order(0, "BUY", 0, 0, 0)

\* std::map::erase(key) and operator[] (which default-constructs the vector).
MapErase(m, k) == [p \in (DOMAIN m) \ {k} |-> m[p]]
MapAt(m, k) == IF k \in DOMAIN m THEN m[k] ELSE <<>>
MapPut(m, k, v) == [p \in (DOMAIN m) \cup {k} |-> IF p = k THEN v ELSE m[p]]

\* The book as the member functions see it.
Book(po, od, bi, as, cb, tr, dl, st, th) ==
    [pool |-> po, orders_ |-> od, bids_ |-> bi, asks_ |-> as,
     tradeCallback_ |-> cb, trades |-> tr, delivered |-> dl, steps |-> st,
     threw |-> th]

\* The empty std::function, and the observers a caller can register.
NoCallback == "none"
Callbacks == {"f", "g"}

\* Observers whose body throws when called.
ThrowingCallbacks == {"h"}

\* getPriceLevelMap(side)
getPriceLevelMap(b, side) == IF side = "BUY" THEN b.bids_ ELSE b.asks_
setPriceLevelMap(b, side, m) ==
    IF side = "BUY" THEN [b EXCEPT !.bids_ = m] ELSE [b EXCEPT !.asks_ = m]

OppositeOf(side) == IF side = "BUY" THEN "SELL" ELSE "BUY"

\* ------------------------------------------------- price-level maintenance
\* std::find(ordersAtPrice.begin(), ordersAtPrice.end(), order): the first
\* position holding the pointer, 0 for end().
FindOrder(s, o) ==
    IF o \in Range(s) THEN SetMin({i \in DOMAIN s : s[i] = o}) ELSE 0

\* vector::erase(position)
EraseAt(s, i) == [j \in 1..(Len(s) - 1) |-> IF j < i THEN s[j] ELSE s[j + 1]]

removeOrderFromPriceLevel_KeepEmptyLevel(b, o) ==
    LET side == b.pool[o].side
        priceMap == getPriceLevelMap(b, side)
        price == b.pool[o].price
    IN  IF price \in DOMAIN priceMap /\ FindOrder(priceMap[price], o) # 0
        THEN setPriceLevelMap(b, side,
                 MapPut(priceMap, price,
                        EraseAt(priceMap[price], FindOrder(priceMap[price], o))))
        ELSE b

\* OrderBook::removeOrderFromPriceLevel(order): looks the level up by the
\* order's current side and price, erases the order and then the level if it
\* became empty; does nothing when the level or the order is not found.
removeOrderFromPriceLevel(b, o) ==
    LET side == b.pool[o].side
        priceMap == getPriceLevelMap(b, side)
        price == b.pool[o].price
    IN  IF price \in DOMAIN priceMap /\ FindOrder(priceMap[price], o) # 0
        THEN LET ordersAtPrice ==
                     EraseAt(priceMap[price], FindOrder(priceMap[price], o))
             IN  IF ordersAtPrice = <<>>
                 THEN setPriceLevelMap(b, side, MapErase(priceMap, price))
                 ELSE setPriceLevelMap(b, side, MapPut(priceMap, price, ordersAtPrice))
        ELSE b

\* The comparator of the sort: a->timestamp < b->timestamp.
TimestampLess(po, a, b) == po[a].timestamp < po[b].timestamp

IsSortedByTimestamp(po, s) ==
    \A i, j \in DOMAIN s : i < j => ~TimestampLess(po, s[j], s[i])

Arrangements(s) ==
    LET n == Len(s)
        Bij == {f \in [1..n -> 1..n] : \A i, j \in 1..n : f[i] = f[j] => i = j}
    IN  {[i \in 1..n |-> s[f[i]]] : f \in Bij}

sortByTimestamp_NoSort(po, s) == {s}

\* std::sort(begin, end, by timestamp): std::sort is not a stable sort, so the
\* result is any arrangement of the level that is sorted by timestamp; orders
\* with equal timestamps may come out in any order.
sortByTimestamp(po, s) ==
    {t \in Arrangements(s) : IsSortedByTimestamp(po, t)}

\* OrderBook::addOrderToPriceLevel(order): push_back at the level of the
\* order's side and price (created if absent), then sort the whole level.
\* The set of books the call can produce.
addOrderToPriceLevel(b, o) ==
    LET side == b.pool[o].side
        priceMap == getPriceLevelMap(b, side)
        price == b.pool[o].price
        pushed == Append(MapAt(priceMap, price), o)
    IN  {setPriceLevelMap(b, side, MapPut(priceMap, price, sorted)) :
             sorted \in sortByTimestamp(b.pool, pushed)}

\* ------------------------------------------------------------- matching
\* Line 388: the best level of the opposite side, asks.begin() for an incoming
\* BUY and --bids.end() for an incoming SELL.
bestPriceLevel_Worst(side, oppositeSide) ==
    IF side = "BUY" THEN SetMax(DOMAIN oppositeSide) ELSE SetMin(DOMAIN oppositeSide)

bestPriceLevel(side, oppositeSide) ==
    IF side = "BUY" THEN SetMin(DOMAIN oppositeSide) ELSE SetMax(DOMAIN oppositeSide)

\* Line 398: the crossing test.
canMatch_SellReversed(side, price, oppositePrice) ==
    IF side = "BUY" THEN price >= oppositePrice ELSE price >= oppositePrice

canMatch_Always(side, price, oppositePrice) == TRUE

canMatch_Strict(side, price, oppositePrice) ==
    IF side = "BUY" THEN price > oppositePrice ELSE price < oppositePrice

canMatch(side, price, oppositePrice) ==
    IF side = "BUY" THEN price >= oppositePrice ELSE price <= oppositePrice

\* Line 412: std::min(newOrder->quantity, oppositeOrder->quantity).
tradeQuantity_Incoming(newQuantity, oppositeQuantity) == newQuantity

tradeQuantity_Resting(newQuantity, oppositeQuantity) == oppositeQuantity

tradeQuantity_OneUnit(newQuantity, oppositeQuantity) ==
    Min(1, Min(newQuantity, oppositeQuantity))

tradeQuantity(newQuantity, oppositeQuantity) == Min(newQuantity, oppositeQuantity)

\* Line 508: (buyOrder->price + sellOrder->price) / 2.0, in half ticks.
tradePrice2_SellPrice(buyPrice, sellPrice) == 2 * sellPrice

tradePrice2(buyPrice, sellPrice) == buyPrice + sellPrice

\* struct Trade, without its wall-clock timestamp.
Trade(buyId, sellId, p2, qty) ==
    [buyOrderId |-> buyId, sellOrderId |-> sellId, price2 |-> p2, quantity |-> qty]

\* One invocation of the callback cb with the Trade t.
Delivery(cb, t) == [to |-> cb, trade |-> t]

\* Lines 510-514: the callback, if one is set, is called with the trade; what
\* it throws leaves executeTrade.
notify(b, t) ==
    IF b.tradeCallback_ # NoCallback
    THEN [b EXCEPT !.delivered = Append(@, Delivery(b.tradeCallback_, t)),
                   !.threw = @ \/ b.tradeCallback_ \in ThrowingCallbacks]
    ELSE b

executeTrade_SwappedIds(b, buyOrder, sellOrder, quantity) ==
    IF b.pool[buyOrder].side # "BUY" \/ b.pool[sellOrder].side # "SELL"
    THEN [b EXCEPT !.threw = TRUE]
    ELSE LET trade == Trade(sellOrder, buyOrder,
                            tradePrice2(b.pool[buyOrder].price, b.pool[sellOrder].price),
                            quantity)
         IN  notify([b EXCEPT !.trades = Append(@, trade)], trade)

executeTrade_NeverNotifies(b, buyOrder, sellOrder, quantity) ==
    IF b.pool[buyOrder].side # "BUY" \/ b.pool[sellOrder].side # "SELL"
    THEN [b EXCEPT !.threw = TRUE]
    ELSE LET trade == Trade(buyOrder, sellOrder,
                            tradePrice2(b.pool[buyOrder].price, b.pool[sellOrder].price),
                            quantity)
         IN  [b EXCEPT !.trades = Append(@, trade)]

\* OrderBook::executeTrade(buyOrder, sellOrder, quantity): throws when the
\* sides are not BUY and SELL, else builds the Trade and hands it to the
\* callback.
executeTrade(b, buyOrder, sellOrder, quantity) ==
    IF b.pool[buyOrder].side # "BUY" \/ b.pool[sellOrder].side # "SELL"
    THEN [b EXCEPT !.threw = TRUE]
    ELSE LET trade == Trade(buyOrder, sellOrder,
                            tradePrice2(b.pool[buyOrder].price, b.pool[sellOrder].price),
                            quantity)
         IN  notify([b EXCEPT !.trades = Append(@, trade)], trade)

\* What one iteration of the inner loop saw and did (history, for the claims).
Step(b, newOrder, oppositeOrder, oppositePrice, tq, after) ==
    [incoming |-> newOrder,
     resting |-> oppositeOrder,
     side |-> b.pool[newOrder].side,
     restingSide |-> b.pool[oppositeOrder].side,
     incomingPrice |-> b.pool[newOrder].price,
     restingPrice |-> b.pool[oppositeOrder].price,
     oppositePrice |-> oppositePrice,
     oppositePrices |-> DOMAIN getPriceLevelMap(b, OppositeOf(b.pool[newOrder].side)),
     level |-> getPriceLevelMap(b, OppositeOf(b.pool[newOrder].side))[oppositePrice],
     levelTimestamps |->
         [i \in DOMAIN getPriceLevelMap(b, OppositeOf(b.pool[newOrder].side))[oppositePrice]
            |-> b.pool[getPriceLevelMap(b, OppositeOf(b.pool[newOrder].side))[oppositePrice][i]].timestamp],
     incomingQuantity |-> b.pool[newOrder].quantity,
     restingQuantity |-> b.pool[oppositeOrder].quantity,
     tradeQuantity |-> tq,
     trades |-> Len(after.trades) - Len(b.trades),
     incomingAfter |-> after.pool[newOrder].quantity,
     restingAfter |-> after.pool[oppositeOrder].quantity]

\* Lines 408-434: the inner loop over the orders of the level at oppositePrice.
RECURSIVE matchLevel(_, _, _)
matchLevel_PartialFillToBack(b, newOrder, oppositePrice) ==
    LET side == b.pool[newOrder].side
        oppositeSide == getPriceLevelMap(b, OppositeOf(side))
        ordersAtPrice == oppositeSide[oppositePrice]
    IN  IF ordersAtPrice # <<>> /\ b.pool[newOrder].quantity > 0 /\ ~b.threw
        THEN LET oppositeOrder == Head(ordersAtPrice)
                 tq == tradeQuantity(b.pool[newOrder].quantity,
                                     b.pool[oppositeOrder].quantity)
                 traded == IF side = "BUY"
                           THEN executeTrade(b, newOrder, oppositeOrder, tq)
                           ELSE executeTrade(b, oppositeOrder, newOrder, tq)
                 newQty == USub(b.pool[newOrder].quantity, tq)
                 updNew == [traded EXCEPT !.pool[newOrder].quantity = newQty]
                 updated == [updNew EXCEPT !.pool[oppositeOrder].quantity =
                                USub(updNew.pool[oppositeOrder].quantity, tq)]
                 logged == [updated EXCEPT !.steps =
                                Append(@, Step(b, newOrder, oppositeOrder,
                                               oppositePrice, tq, updated))]
                 removed ==
                     IF logged.pool[oppositeOrder].quantity = 0
                     THEN setPriceLevelMap(
                              [logged EXCEPT !.orders_ = @ \ {oppositeOrder}],
                              OppositeOf(side),
                              MapPut(oppositeSide, oppositePrice, Tail(ordersAtPrice)))
                     ELSE setPriceLevelMap(
                              logged, OppositeOf(side),
                              MapPut(oppositeSide, oppositePrice,
                                     Append(Tail(ordersAtPrice), oppositeOrder)))
             IN  IF traded.threw THEN traded
                 ELSE matchLevel(removed, newOrder, oppositePrice)
        ELSE b

matchLevel(b, newOrder, oppositePrice) ==
    LET side == b.pool[newOrder].side
        oppositeSide == getPriceLevelMap(b, OppositeOf(side))
        ordersAtPrice == oppositeSide[oppositePrice]
    IN  IF ordersAtPrice # <<>> /\ b.pool[newOrder].quantity > 0 /\ ~b.threw
        THEN LET oppositeOrder == Head(ordersAtPrice)
                 tq == tradeQuantity(b.pool[newOrder].quantity,
                                     b.pool[oppositeOrder].quantity)
                 traded == IF side = "BUY"
                           THEN executeTrade(b, newOrder, oppositeOrder, tq)
                           ELSE executeTrade(b, oppositeOrder, newOrder, tq)
                 newQty == USub(b.pool[newOrder].quantity, tq)
                 updNew == [traded EXCEPT !.pool[newOrder].quantity = newQty]
                 updated == [updNew EXCEPT !.pool[oppositeOrder].quantity =
                                USub(updNew.pool[oppositeOrder].quantity, tq)]
                 logged == [updated EXCEPT !.steps =
                                Append(@, Step(b, newOrder, oppositeOrder,
                                               oppositePrice, tq, updated))]
                 removed ==
                     IF logged.pool[oppositeOrder].quantity = 0
                     THEN setPriceLevelMap(
                              [logged EXCEPT !.orders_ = @ \ {oppositeOrder}],
                              OppositeOf(side),
                              MapPut(oppositeSide, oppositePrice, Tail(ordersAtPrice)))
                     ELSE logged
             IN  IF traded.threw THEN traded
                 ELSE matchLevel(removed, newOrder, oppositePrice)
        ELSE b

\* Lines 436-440: the level is erased once its sequence is empty.
eraseEmptyLevel(b, side, price) ==
    LET m == getPriceLevelMap(b, side)
    IN  IF m[price] = <<>> THEN setPriceLevelMap(b, side, MapErase(m, price)) ELSE b

\* Lines 385-441: the outer loop over the best levels of the opposite side.
RECURSIVE matchLevels(_, _)
matchLevels(b, newOrder) ==
    LET side == b.pool[newOrder].side
        oppositeSide == getPriceLevelMap(b, OppositeOf(side))
    IN  IF b.pool[newOrder].quantity > 0 /\ DOMAIN oppositeSide # {} /\ ~b.threw
        THEN LET oppositePrice == bestPriceLevel(side, oppositeSide)
             IN  IF ~canMatch(side, b.pool[newOrder].price, oppositePrice)
                 THEN b
                 ELSE LET swept == matchLevel(b, newOrder, oppositePrice)
                      IN  IF swept.threw THEN swept
                          ELSE matchLevels(
                                   eraseEmptyLevel(swept, OppositeOf(side), oppositePrice),
                                   newOrder)
        ELSE b

removeFilledNewOrder_Never(b, newOrder) == b

removeFilledNewOrder_IndexOnly(b, newOrder) ==
    IF b.pool[newOrder].quantity = 0
    THEN [b EXCEPT !.orders_ = @ \ {newOrder}]
    ELSE b

\* Lines 443-448: a fully filled new order leaves the index and its level.
removeFilledNewOrder(b, newOrder) ==
    IF b.pool[newOrder].quantity = 0
    THEN removeOrderFromPriceLevel([b EXCEPT !.orders_ = @ \ {newOrder}], newOrder)
    ELSE b

\* OrderBook::matchOrders(newOrder)
matchOrders(b, newOrder) ==
    LET matched == matchLevels(b, newOrder)
    IN  IF matched.threw THEN matched ELSE removeFilledNewOrder(matched, newOrder)

\* ---------------------------------------------------- public operations
\* Each returns the set of outcomes [book, result] the call can have.
Outcome(b, r) == [book |-> b, result |-> r]

addOrder_NoDuplicateCheck(b, order) ==
    IF order = NullOrder \/ order.quantity = 0
    THEN {Outcome(b, FALSE)}
    ELSE LET id == order.orderId
             indexed == [b EXCEPT !.pool = MapPut(@, id, order),
                                  !.orders_ = @ \cup {id}]
         IN  {Outcome(matchOrders(placed, id), TRUE) :
                  placed \in addOrderToPriceLevel(indexed, id)}

\* OrderBook::addOrder(order), with order the Order object handed in.
addOrder(b, order) ==
    IF order = NullOrder \/ order.quantity = 0
    THEN {Outcome(b, FALSE)}
    ELSE IF order.orderId \in b.orders_
    THEN {Outcome(b, FALSE)}
    ELSE LET id == order.orderId
             indexed == [b EXCEPT !.pool = MapPut(@, id, order),
                                  !.orders_ = @ \cup {id}]
         IN  {Outcome(matchOrders(placed, id), TRUE) :
                  placed \in addOrderToPriceLevel(indexed, id)}

cancelOrder_UnknownTrue(b, orderId) ==
    IF orderId \notin b.orders_
    THEN {Outcome(b, TRUE)}
    ELSE LET removed == removeOrderFromPriceLevel(b, orderId)
         IN  {Outcome([removed EXCEPT !.orders_ = @ \ {orderId}], TRUE)}

cancelOrder_IndexOnly(b, orderId) ==
    IF orderId \notin b.orders_
    THEN {Outcome(b, FALSE)}
    ELSE {Outcome([b EXCEPT !.orders_ = @ \ {orderId}], TRUE)}

\* OrderBook::cancelOrder(orderId)
cancelOrder(b, orderId) ==
    IF orderId \notin b.orders_
    THEN {Outcome(b, FALSE)}
    ELSE LET removed == removeOrderFromPriceLevel(b, orderId)
         IN  {Outcome([removed EXCEPT !.orders_ = @ \ {orderId}], TRUE)}

modifyOrder_UpdateBeforeRemove(b, orderId, newPrice, newQuantity, now) ==
    IF orderId \notin b.orders_
    THEN {Outcome(b, FALSE)}
    ELSE LET updated == [b EXCEPT !.pool[orderId].price = newPrice,
                                  !.pool[orderId].quantity = newQuantity,
                                  !.pool[orderId].timestamp = now]
             removed == removeOrderFromPriceLevel(updated, orderId)
         IN  {Outcome(matchOrders(placed, orderId), TRUE) :
                  placed \in addOrderToPriceLevel(removed, orderId)}

modifyOrder_KeepTimestamp(b, orderId, newPrice, newQuantity, now) ==
    IF orderId \notin b.orders_
    THEN {Outcome(b, FALSE)}
    ELSE LET removed == removeOrderFromPriceLevel(b, orderId)
             updated == [removed EXCEPT !.pool[orderId].price = newPrice,
                                        !.pool[orderId].quantity = newQuantity]
         IN  {Outcome(matchOrders(placed, orderId), TRUE) :
                  placed \in addOrderToPriceLevel(updated, orderId)}

\* OrderBook::modifyOrder(orderId, newPrice, newQuantity), called at clock
\* reading now.
modifyOrder(b, orderId, newPrice, newQuantity, now) ==
    IF orderId \notin b.orders_
    THEN {Outcome(b, FALSE)}
    ELSE LET removed == removeOrderFromPriceLevel(b, orderId)
             updated == [removed EXCEPT !.pool[orderId].price = newPrice,
                                        !.pool[orderId].quantity = newQuantity,
                                        !.pool[orderId].timestamp = now]
         IN  {Outcome(matchOrders(placed, orderId), TRUE) :
                  placed \in addOrderToPriceLevel(updated, orderId)}

clear_KeepIndex(b) == [b EXCEPT !.bids_ = <<>>, !.asks_ = <<>>]

\* OrderBook::clear()
clear(b) == [b EXCEPT !.orders_ = {}, !.bids_ = <<>>, !.asks_ = <<>>]

setTradeCallback_KeepFirst(b, callback) ==
    IF b.tradeCallback_ = NoCallback
    THEN [b EXCEPT !.tradeCallback_ = callback]
    ELSE b

\* OrderBook::setTradeCallback(callback)
setTradeCallback(b, callback) == [b EXCEPT !.tradeCallback_ = callback]

\* OrderBook::getBestBid / getBestAsk / getSpread / getOrderCount; None is
\* std::nullopt.
None == -1
getBestBid(bi) == IF DOMAIN bi = {} THEN None ELSE SetMax(DOMAIN bi)
getBestAsk(as) == IF DOMAIN as = {} THEN None ELSE SetMin(DOMAIN as)
getOrderCount(od) == Cardinality(od)

\* std::optional<double>: Absent is std::nullopt, Some(v) holds v.
Absent == <<>>
Some(v) == <<v>>

getSpread_BidMinusAsk(bi, as) ==
    IF getBestBid(bi) = None \/ getBestAsk(as) = None
    THEN Absent
    ELSE Some(getBestBid(bi) - getBestAsk(as))

\* OrderBook::getSpread()
getSpread(bi, as) ==
    IF getBestBid(bi) = None \/ getBestAsk(as) = None
    THEN Absent
    ELSE Some(getBestAsk(as) - getBestBid(bi))

\* std::uint64_t addition.
UAdd(a, b) == (a + b) % UintMod

\* The loop of getDepthAtPrice: totalQuantity += order->quantity over the
\* orders of the level.
RECURSIVE totalQuantity(_, _)
totalQuantity(po, ordersAtPrice) ==
    IF ordersAtPrice = <<>> THEN 0
    ELSE UAdd(totalQuantity(po, SubSeq(ordersAtPrice, 1, Len(ordersAtPrice) - 1)),
              po[ordersAtPrice[Len(ordersAtPrice)]].quantity)

getDepthAtPrice_CountOrders(po, bi, as, price, side) ==
    LET priceMap == IF side = "BUY" THEN bi ELSE as
    IN  IF price \notin DOMAIN priceMap THEN 0
        ELSE Len(priceMap[price])

\* OrderBook::getDepthAtPrice(price, side)
getDepthAtPrice(po, bi, as, price, side) ==
    LET priceMap == IF side = "BUY" THEN bi ELSE as
    IN  IF price \notin DOMAIN priceMap THEN 0
        ELSE totalQuantity(po, priceMap[price])

\* ------------------------------------------------------------ the machine
\* The orders some level points to.
Leveled(m) == UNION {Range(m[p]) : p \in DOMAIN m}
Referenced(b) == b.orders_ \cup Leveled(b.bids_) \cup Leveled(b.asks_)

\* The objects the book no longer points to are released.
Release(b) == [b EXCEPT !.pool = [o \in (DOMAIN @) \cap Referenced(b) |-> @[o]]]

Current == Book(pool, orders_, bids_, asks_, tradeCallback_, <<>>, <<>>, <<>>, FALSE)

\* The record of a call: its arguments, its result, what getOrderCount() was
\* when it was made and, for modifyOrder, the side of the order it found.
Call(op, order, orderId, newPrice, newQuantity, result, threw) ==
    [op |-> op, order |-> order, orderId |-> orderId, newPrice |-> newPrice,
     newQuantity |-> newQuantity, callback |-> NoCallback,
     count |-> getOrderCount(orders_), side |-> "none", result |-> result,
     threw |-> threw]

\* The order in which the resting orders were placed by addOrder/modifyOrder
\* calls (history).
Without(s, o) == SelectSeq(s, LAMBDA x : x # o)
Resting(s, b) == SelectSeq(s, LAMBDA x : x \in Referenced(b))

Install(out, arr) ==
    LET b == Release(out.book)
    IN  /\ pool' = b.pool
        /\ orders_' = b.orders_
        /\ bids_' = b.bids_
        /\ asks_' = b.asks_
        /\ tradeCallback_' = b.tradeCallback_
        /\ trades' = b.trades
        /\ delivered' = b.delivered
        /\ steps' = b.steps
        /\ arrival' = Resting(arr, b)

\* The Order objects a caller can hand to addOrder at reading now: any id,
\* side, price and quantity, constructed at some reading up to now; or null.
Orders(now) ==
    {Order(id, s, p, q, ts) :
        id \in OrderIds, s \in Sides, p \in Prices, q \in Quantities, ts \in 0..now}

\* No call is in progress or being observed: the history of the last call is
\* empty.
NoCall ==
    [Call("idle", NullOrder, 0, 0, 0, FALSE, FALSE) EXCEPT !.count = 0]
Idle == call = NoCall

\* No function of the test program is running.
NoTest == [name |-> "none", pc |-> 0, made |-> <<>>, results |-> <<>>,
           tradeCount |-> 0]
Init ==
    /\ pool = <<>>
    /\ orders_ = {}
    /\ bids_ = <<>>
    /\ asks_ = <<>>
    /\ tradeCallback_ = NoCallback
    /\ clock = 0
    /\ arrival = <<>>
    /\ call = NoCall
    /\ trades = <<>>
    /\ delivered = <<>>
    /\ steps = <<>>
    /\ replaced = NoCallback
    /\ test = NoTest

\* The Order objects of Orders(now) whose timestamp differs from that of every
\* order at the level they would join: callers that never construct two orders
\* of one level within the same clock reading (as testPriceTimePriority, which
\* sleeps between the constructions).
DistinctOrders(now) ==
    {o \in Orders(now) :
        \A x \in DOMAIN pool :
            (pool[x].side = o.side /\ pool[x].price = o.price)
                => pool[x].timestamp # o.timestamp}

\* modifyOrder(orderId, newPrice, ...) at a reading that is the timestamp of
\* no other order of the level the order would join.
DistinctModify(orderId, newPrice, now) ==
    orderId \in DOMAIN pool =>
        \A x \in (DOMAIN pool) \ {orderId} :
            (pool[x].side = pool[orderId].side /\ pool[x].price = newPrice)
                => pool[x].timestamp # now

\* The four mutating operations, each one atomic call made while idle.
\* `track` says whether the specification keeps the arrival history; the
\* specification that does takes its calls from DistinctOrders and
\* DistinctModify, so that no level ever holds two equal timestamps and the
\* sort has one outcome.
AddOrderOp(track) ==
    /\ Idle
    /\ \E order \in (IF track THEN DistinctOrders(clock) ELSE Orders(clock))
                        \cup {NullOrder} :
        \E out \in addOrder(Current, order) :
            /\ call' = Call("addOrder", order, order.orderId, 0, 0,
                            out.result, out.book.threw)
            /\ Install(out, IF track /\ out.result
                            THEN Append(arrival, order.orderId) ELSE arrival)
    /\ UNCHANGED <<clock, replaced, test>>

CancelOrderOp(track) ==
    /\ Idle
    /\ \E orderId \in OrderIds :
        \E out \in cancelOrder(Current, orderId) :
            /\ call' = Call("cancelOrder", NullOrder, orderId, 0, 0,
                            out.result, out.book.threw)
            /\ Install(out, arrival)
    /\ UNCHANGED <<clock, replaced, test>>

ModifyOrderOp(track) ==
    /\ Idle
    /\ \E orderId \in OrderIds, newPrice \in Prices, newQuantity \in Quantities :
        /\ track => DistinctModify(orderId, newPrice, clock)
        /\ \E out \in modifyOrder(Current, orderId, newPrice, newQuantity, clock) :
            /\ call' = [Call("modifyOrder", NullOrder, orderId, newPrice,
                             newQuantity, out.result, out.book.threw)
                            EXCEPT !.side = IF orderId \in orders_
                                            THEN pool[orderId].side ELSE "none"]
            /\ Install(out, IF track /\ out.result
                            THEN Append(Without(arrival, orderId), orderId)
                            ELSE arrival)
    /\ UNCHANGED <<clock, replaced, test>>

ClearOp(track) ==
    /\ Idle
    /\ call' = Call("clear", NullOrder, 0, 0, 0, TRUE, FALSE)
    /\ Install(Outcome(clear(Current), TRUE), arrival)
    /\ UNCHANGED <<clock, replaced, test>>

AddOrder == AddOrderOp(FALSE)
CancelOrder == CancelOrderOp(FALSE)
ModifyOrder == ModifyOrderOp(FALSE)
Clear == ClearOp(FALSE)

\* The call has returned and its result and trades have been seen: the
\* history of the call is dropped.  The book is untouched.
Return ==
    /\ ~Idle
    /\ call' = NoCall
    /\ trades' = <<>>
    /\ delivered' = <<>>
    /\ steps' = <<>>
    /\ UNCHANGED <<pool, orders_, bids_, asks_, tradeCallback_, clock, arrival,
                   replaced, test>>

\* Time passes between two calls (the readings are capped at MaxClock).
Tick ==
    /\ Idle
    /\ clock < MaxClock
    /\ clock' = clock + 1
    /\ UNCHANGED <<pool, orders_, bids_, asks_, tradeCallback_, arrival, call,
                   trades, delivered, steps, replaced, test>>

Next == AddOrder \/ CancelOrder \/ ModifyOrder \/ Clear \/ Return \/ Tick

Spec == Init /\ [][Next]_vars

\* The same machine, keeping the arrival history, for callers that hand in
\* orders with distinct timestamps per level.
AddOrderArrival == AddOrderOp(TRUE)
CancelOrderArrival == CancelOrderOp(TRUE)
ModifyOrderArrival == ModifyOrderOp(TRUE)
ClearArrival == ClearOp(TRUE)

NextArrival ==
    AddOrderArrival \/ CancelOrderArrival \/ ModifyOrderArrival \/ ClearArrival
        \/ Return \/ Tick

SpecArrival == Init /\ [][NextArrival]_vars

\* The observer that setTradeCallback(callback) takes the place of, when
\* callback is another observer.
Replaced(callback) ==
    IF tradeCallback_ \in Callbacks /\ callback \in Callbacks
          /\ callback # tradeCallback_
    THEN tradeCallback_
    ELSE NoCallback

\* The machine of Spec with callers that also register observers.
SetTradeCallback ==
    /\ Idle
    /\ \E callback \in Callbacks \cup {NoCallback} :
        /\ call' = [Call("setTradeCallback", NullOrder, 0, 0, 0, TRUE, FALSE)
                        EXCEPT !.callback = callback]
        /\ Install(Outcome(setTradeCallback(Current, callback), TRUE), arrival)
        /\ replaced' = Replaced(callback)
    /\ UNCHANGED <<clock, test>>

NextCallback ==
    AddOrder \/ CancelOrder \/ ModifyOrder \/ Clear \/ SetTradeCallback
        \/ Return \/ Tick

SpecCallback == Init /\ [][NextCallback]_vars

\* The machine of Spec with callers that register an observer that throws.
\* The exception leaves addOrder or modifyOrder through matchOrders, and the
\* book stays as the statements run so far have made it.
SetThrowingCallback ==
    /\ Idle
    /\ \E callback \in ThrowingCallbacks \cup {NoCallback} :
        /\ call' = [Call("setTradeCallback", NullOrder, 0, 0, 0, TRUE, FALSE)
                        EXCEPT !.callback = callback]
        /\ Install(Outcome(setTradeCallback(Current, callback), TRUE), arrival)
    /\ UNCHANGED <<clock, replaced, test>>

NextThrow ==
    AddOrder \/ CancelOrder \/ ModifyOrder \/ Clear \/ SetThrowingCallback
        \/ Return \/ Tick

SpecThrow == Init /\ [][NextThrow]_vars

\* Callers that hand in orders of the largest quantities only, and cancel and
\* clear: Order::quantity is a std::uint64_t and addOrder accepts every value
\* above 0.  LargeQuantity is 2^63 at the scale of UintBits.
LargeQuantity == UintMod \div 2

LargeOrders(now) ==
    {Order(id, s, p, LargeQuantity, ts) :
        id \in OrderIds, s \in Sides, p \in Prices, ts \in 0..now}

AddLargeOrder ==
    /\ Idle
    /\ \E order \in LargeOrders(clock) :
        \E out \in addOrder(Current, order) :
            /\ call' = Call("addOrder", order, order.orderId, 0, 0,
                            out.result, out.book.threw)
            /\ Install(out, arrival)
    /\ UNCHANGED <<clock, replaced, test>>

NextLarge == AddLargeOrder \/ CancelOrder \/ Clear \/ Return \/ Tick

SpecLarge == Init /\ [][NextLarge]_vars

\* ------------------------------------------------------ the test program
\* tests/simple_test.cpp: the statements of a test function that construct an
\* Order, sleep, register the counting lambda and call addOrder.  Prices are
\* in cents (100.50 is 10050); `made` holds the Order objects constructed so
\* far, `results` what the addOrder calls returned, and tradeCount is the
\* counter the lambda increments.
Make(id, s, p, qty) == [kind |-> "make", order |-> Order(id, s, p, qty, 0), local |-> 0]
Add(k) == [kind |-> "addOrder", order |-> NullOrder, local |-> k]
Sleep == [kind |-> "sleep", order |-> NullOrder, local |-> 0]
Register == [kind |-> "setTradeCallback", order |-> NullOrder, local |-> 0]

testBasicOrderAddition ==
    << Make(1, "BUY", 10050, 100), Make(2, "BUY", 10025, 200),
       Make(3, "BUY", 10075, 150),
       Add(1), Add(2), Add(3),
       Make(4, "SELL", 10100, 100), Make(5, "SELL", 10125, 200),
       Make(6, "SELL", 10075, 150),
       Add(4), Add(5), Add(6) >>

testPriceTimePriority ==
    << Register,
       Make(1, "BUY", 10050, 100), Sleep,
       Make(2, "BUY", 10050, 100), Sleep,
       Make(3, "BUY", 10050, 100),
       Add(1), Add(2), Add(3),
       Make(4, "SELL", 10050, 50), Add(4),
       Make(5, "SELL", 10050, 75), Add(5) >>

TestNames == {"testBasicOrderAddition", "testPriceTimePriority"}

Program(name) ==
    IF name = "testBasicOrderAddition" THEN testBasicOrderAddition
    ELSE IF name = "testPriceTimePriority" THEN testPriceTimePriority
    ELSE <<>>

Running == test.pc \in DOMAIN Program(test.name)
Statement == Program(test.name)[test.pc]
Finished(name) == test.name = name /\ test.pc = Len(Program(name)) + 1

\* std::make_shared<Order>(id, side, price, quantity): the timestamp is the
\* clock reading.
TestMake ==
    /\ Running /\ Statement.kind = "make"
    /\ test' = [test EXCEPT !.pc = @ + 1,
                            !.made = Append(@, [Statement.order EXCEPT
                                                   !.timestamp = clock])]
    /\ UNCHANGED <<pool, orders_, bids_, asks_, tradeCallback_, clock, arrival,
                   call, trades, delivered, steps, replaced>>

\* std::this_thread::sleep_for(std::chrono::microseconds(1)): the next
\* reading is later.
TestSleep ==
    /\ Running /\ Statement.kind = "sleep"
    /\ clock' = clock + 1
    /\ test' = [test EXCEPT !.pc = @ + 1]
    /\ UNCHANGED <<pool, orders_, bids_, asks_, tradeCallback_, arrival, call,
                   trades, delivered, steps, replaced>>

\* book.setTradeCallback([&](const Trade &trade) { ...; tradeCount++; })
TestSetTradeCallback ==
    /\ Running /\ Statement.kind = "setTradeCallback"
    /\ Idle
    /\ call' = [Call("setTradeCallback", NullOrder, 0, 0, 0, TRUE, FALSE)
                    EXCEPT !.callback = "f"]
    /\ Install(Outcome(setTradeCallback(Current, "f"), TRUE), arrival)
    /\ replaced' = Replaced("f")
    /\ test' = [test EXCEPT !.pc = @ + 1]
    /\ UNCHANGED clock

\* book.addOrder(order) on the Order constructed as local number k; the
\* lambda has counted the trades when the call returns.
TestAddOrder ==
    /\ Running /\ Statement.kind = "addOrder"
    /\ Idle
    /\ LET order == test.made[Statement.local]
       IN  \E out \in addOrder(Current, order) :
               /\ call' = Call("addOrder", order, order.orderId, 0, 0,
                               out.result, out.book.threw)
               /\ Install(out, arrival)
               /\ test' = [test EXCEPT
                               !.pc = @ + 1,
                               !.results = Append(@, out.result),
                               !.tradeCount = @ + Len(out.book.delivered)]
    /\ UNCHANGED <<clock, replaced>>

\* A test function starts on a newly constructed OrderBook.
InitTests ==
    /\ pool = <<>>
    /\ orders_ = {}
    /\ bids_ = <<>>
    /\ asks_ = <<>>
    /\ tradeCallback_ = NoCallback
    /\ clock = 0
    /\ arrival = <<>>
    /\ call = NoCall
    /\ trades = <<>>
    /\ delivered = <<>>
    /\ steps = <<>>
    /\ replaced = NoCallback
    /\ test \in {[NoTest EXCEPT !.name = name, !.pc = 1] : name \in TestNames}

NextTests ==
    TestMake \/ TestSleep \/ TestSetTradeCallback \/ TestAddOrder
        \/ Return \/ Tick

SpecTests == InitTests /\ [][NextTests]_vars

\* ================================================================ claims
Ledger(side) == IF side = "BUY" THEN bids_ ELSE asks_

\* The places <<side, price, position>> where the ledgers hold order o.
Places(o) ==
    {pl \in Sides \X Prices \X (1..(MaxId + 1)) :
        /\ pl[2] \in DOMAIN Ledger(pl[1])
        /\ pl[3] \in DOMAIN Ledger(pl[1])[pl[2]]
        /\ Ledger(pl[1])[pl[2]][pl[3]] = o}

InLevels == Leveled(bids_) \cup Leveled(asks_)
Matching == call.op \in {"addOrder", "modifyOrder"} /\ call.result

\* C1: whenever both ledgers are non-empty, the best ask is at or above the
\* best bid: no sequence of calls leaves the book crossed.
C1_NeverCrossed ==
    (DOMAIN bids_ # {} /\ DOMAIN asks_ # {}) => getBestAsk(asks_) >= getBestBid(bids_)

\* A call has traded and left orders resting on both sides.
C1_Witness ==
    /\ Matching /\ trades # <<>>
    /\ DOMAIN bids_ # {} /\ DOMAIN asks_ # {}

\* C2: after every call, every order of the id index is at exactly one place
\* of the ledgers, and that place is on its own side at the level of its
\* current price.
C2_IndexedOnceAtOwnLevel ==
    \A o \in orders_ :
        /\ Cardinality(Places(o)) = 1
        /\ \A pl \in Places(o) : pl[1] = pool[o].side /\ pl[2] = pool[o].price

\* A modifyOrder call has left the modified order resting beside another.
C2_Witness ==
    /\ call.op = "modifyOrder" /\ call.result
    /\ call.orderId \in orders_
    /\ Cardinality(orders_) >= 2

\* C3: after every call, every order held by a price level is in the id index
\* (the level and the index share the Order object, hence its price and
\* quantity), and an incoming or resting order that matching consumed is in
\* no level.
C3_LeveledIsIndexed ==
    /\ InLevels \subseteq orders_
    /\ InLevels \subseteq DOMAIN pool
    /\ \A k \in DOMAIN steps :
        /\ steps[k].restingAfter = 0 => steps[k].resting \notin InLevels
        /\ steps[k].incomingAfter = 0 => steps[k].incoming \notin InLevels

\* Matching has consumed the incoming order while other orders rest.
C3_Witness ==
    /\ steps # <<>>
    /\ steps[Len(steps)].incomingAfter = 0
    /\ InLevels # {}

\* C4: after every call, no ledger has a level whose order sequence is empty.
C4_NoEmptyLevel ==
    \A side \in Sides : \A p \in DOMAIN Ledger(side) : Ledger(side)[p] # <<>>

\* Matching has filled the only order of a level.
C4_Witness ==
    \E k \in DOMAIN steps : steps[k].restingAfter = 0 /\ Len(steps[k].level) = 1

\* C5: after every call, every order in the index or in a level has a
\* quantity above 0.
C5_PositiveQuantity ==
    \A o \in orders_ \cup InLevels : pool[o].quantity > 0

\* modifyOrder was called with newQuantity 0 on a resting order.
C5_Witness ==
    /\ call.op = "modifyOrder" /\ call.result /\ call.newQuantity = 0
    /\ orders_ # {}

\* Position of o in the arrival history, 0 when it is not there.
ArrivalRank(o) == FindOrder(arrival, o)

\* C6: strict FIFO by arrival: no trade is made against an order B while an
\* order A that was placed by an earlier call rests at the same level.
C6_FifoByArrival ==
    [][\A k \in DOMAIN steps' :
          \A i \in DOMAIN steps'[k].level :
              LET A == steps'[k].level[i]
                  B == steps'[k].resting
              IN  ~(/\ ArrivalRank(A) # 0
                    /\ ArrivalRank(B) # 0
                    /\ ArrivalRank(A) < ArrivalRank(B))]_vars

\* C7: timestamp priority: a trade is made against the head of the level, and
\* no order of that level has a timestamp below the head's at that moment.
C7_TimestampPriority ==
    \A k \in DOMAIN steps :
        /\ steps[k].resting = steps[k].level[1]
        /\ \A i \in DOMAIN steps[k].level :
               steps[k].levelTimestamps[1] <= steps[k].levelTimestamps[i]

\* A trade was made at a level holding an older and a newer order.
C7_Witness ==
    \E k \in DOMAIN steps :
        /\ Len(steps[k].level) >= 2
        /\ steps[k].levelTimestamps[1] < steps[k].levelTimestamps[2]

\* C8: price priority: every trade is against an order at the best opposite
\* level existing at that moment, and within a call the resting prices of the
\* trades never improve (non-decreasing for a BUY, non-increasing for a SELL).
C8_PricePriority ==
    /\ \A k \in DOMAIN steps :
        /\ steps[k].restingPrice = steps[k].oppositePrice
        /\ \A p \in steps[k].oppositePrices :
               IF steps[k].side = "BUY"
               THEN steps[k].restingPrice <= p
               ELSE steps[k].restingPrice >= p
    /\ \A k, j \in DOMAIN steps :
        k < j => IF steps[k].side = "BUY"
                 THEN steps[k].restingPrice <= steps[j].restingPrice
                 ELSE steps[k].restingPrice >= steps[j].restingPrice

\* One call has traded at two price levels.
C8_Witness ==
    \E k, j \in DOMAIN steps : steps[k].restingPrice # steps[j].restingPrice

\* C9: each match emits exactly one trade, of quantity
\* q = min(O.quantity, R.quantity) >= 1, and leaves both quantities smaller by
\* exactly q.
C9_Conservation ==
    /\ ~call.threw => Len(trades) = Len(steps)
    /\ \A k \in DOMAIN steps :
        LET st == steps[k]
            q == st.tradeQuantity
        IN  /\ st.trades = 1
            /\ k \in DOMAIN trades /\ trades[k].quantity = q
            /\ q >= 1
            /\ q = Min(st.incomingQuantity, st.restingQuantity)
            /\ st.incomingAfter = st.incomingQuantity - q
            /\ st.restingAfter = st.restingQuantity - q
            /\ st.incomingAfter >= 0 /\ st.restingAfter >= 0

\* An incoming order larger than the resting one has traded.
C9_Witness ==
    \E k \in DOMAIN steps : steps[k].incomingQuantity > steps[k].restingQuantity

\* C10: the execution price of every trade is the mean of the limit prices of
\* the two matched orders: 2 * price = buy price + sell price.
C10_MidPrice ==
    \A k \in DOMAIN trades :
        /\ k \in DOMAIN steps
        /\ trades[k].price2 = steps[k].incomingPrice + steps[k].restingPrice
        /\ trades[k].buyOrderId =
               (IF steps[k].side = "BUY" THEN steps[k].incoming ELSE steps[k].resting)
        /\ trades[k].sellOrderId =
               (IF steps[k].side = "BUY" THEN steps[k].resting ELSE steps[k].incoming)

\* Two orders with different limit prices have traded.
C10_Witness ==
    \E k \in DOMAIN trades :
        k \in DOMAIN steps /\ steps[k].incomingPrice # steps[k].restingPrice

\* The book part of the state is the same before and after the step.
BookUnchanged ==
    /\ pool' = pool
    /\ orders_' = orders_
    /\ bids_' = bids_
    /\ asks_' = asks_
    /\ tradeCallback_' = tradeCallback_

NoTrade == trades' = <<>> /\ delivered' = <<>> /\ steps' = <<>>

BuyPrice(st) == IF st.side = "BUY" THEN st.incomingPrice ELSE st.restingPrice
SellPrice(st) == IF st.side = "BUY" THEN st.restingPrice ELSE st.incomingPrice

\* C11: a trade is made only between orders whose prices cross: the limit
\* price of the BUY order is at or above that of the SELL order.
C11_TradesCross ==
    /\ Len(trades) <= Len(steps)
    /\ \A k \in DOMAIN steps : BuyPrice(steps[k]) >= SellPrice(steps[k])

\* A call has traded and then stopped at an opposite level that does not
\* cross: the incoming order rests below the best ask.
C11_Witness ==
    /\ call.op = "addOrder" /\ call.result /\ trades # <<>>
    /\ call.order.side = "BUY"
    /\ call.orderId \in orders_
    /\ DOMAIN asks_ # {}
    /\ pool[call.orderId].price < getBestAsk(asks_)

\* The side of the order named id at the match st ("?" for an order that took
\* no part in it).
SideAt(st, id) ==
    IF id = st.incoming THEN st.side
    ELSE IF id = st.resting THEN st.restingSide
    ELSE "?"

\* C12: in every trade buyOrderId names a BUY order and sellOrderId a SELL
\* order, exactly one of the two being the incoming order of the call; and
\* executeTrade never throws its "order sides don't match" error.
C12_TradeSides ==
    /\ ~call.threw
    /\ \A k \in DOMAIN trades :
        /\ k \in DOMAIN steps
        /\ SideAt(steps[k], trades[k].buyOrderId) = "BUY"
        /\ SideAt(steps[k], trades[k].sellOrderId) = "SELL"
        /\ (trades[k].buyOrderId = call.orderId) # (trades[k].sellOrderId = call.orderId)

\* An incoming SELL order has traded against a resting BUY order.
C12_Witness ==
    \E k \in DOMAIN trades :
        /\ k \in DOMAIN steps
        /\ steps[k].side = "SELL"
        /\ trades[k].sellOrderId = call.orderId

\* C13: addOrder of a null order, of an order of quantity 0 or of an order
\* whose id is in the book returns false, changes nothing and trades nothing.
C13_AddOrderRejected ==
    [][(/\ call'.op = "addOrder"
        /\ \/ call'.order = NullOrder
           \/ call'.order.quantity = 0
           \/ call'.order.orderId \in orders_)
       => (~call'.result /\ BookUnchanged /\ NoTrade)]_vars

\* addOrder has rejected a duplicate id whose price crosses the best ask.
C13_Witness ==
    /\ call.op = "addOrder" /\ ~call.result
    /\ call.order.quantity > 0
    /\ call.order.orderId \in orders_
    /\ call.order.side = "BUY"
    /\ DOMAIN asks_ # {}
    /\ call.order.price >= getBestAsk(asks_)

\* C14: cancelOrder and modifyOrder of an id that is not in the book return
\* false, change nothing and trade nothing.
C14_UnknownIdRejected ==
    [][(/\ call'.op \in {"cancelOrder", "modifyOrder"}
        /\ call'.orderId \notin orders_)
       => (~call'.result /\ BookUnchanged /\ NoTrade)]_vars

\* modifyOrder of an unknown id was called on a book with resting orders.
C14_Witness ==
    /\ call.op = "modifyOrder" /\ ~call.result
    /\ call.newQuantity > 0
    /\ call.orderId \notin orders_
    /\ orders_ # {}

\* The sum of the quantities of the orders S holds in pool po.
RECURSIVE SumQuantity(_, _)
SumQuantity(po, S) ==
    IF S = {} THEN 0
    ELSE LET o == CHOOSE x \in S : TRUE
         IN  po[o].quantity + SumQuantity(po, S \ {o})

RECURSIVE SumTrades(_)
SumTrades(ts) == IF ts = <<>> THEN 0 ELSE Head(ts).quantity + SumTrades(Tail(ts))

\* C15: cancelOrder of a resting id returns true, takes that order out of the
\* index and of its level, trades nothing, and leaves every other order's
\* fields and the relative order of every level as they were.
C15_CancelRemovesOnlyTheOrder ==
    [][(call'.op = "cancelOrder" /\ call'.orderId \in orders_)
       => LET id == call'.orderId
          IN  /\ call'.result
              /\ NoTrade
              /\ orders_' = orders_ \ {id}
              /\ id \notin Leveled(bids_') \cup Leveled(asks_')
              /\ \A o \in orders_ \ {id} : o \in DOMAIN pool' /\ pool'[o] = pool[o]
              /\ \A p \in Prices :
                    /\ MapAt(bids_', p) = Without(MapAt(bids_, p), id)
                    /\ MapAt(asks_', p) = Without(MapAt(asks_, p), id)]_vars

\* cancelOrder has removed an order and left others resting.
C15_Witness ==
    /\ call.op = "cancelOrder" /\ call.result
    /\ Cardinality(orders_) >= 2

\* The addOrder call was given an order that passes the three checks.
Accepted ==
    /\ call'.op = "addOrder"
    /\ call'.order # NullOrder
    /\ call'.order.quantity > 0
    /\ call'.order.orderId \notin orders_

\* C16: an accepted addOrder returns true; when matching consumed its whole
\* quantity the order is in neither the index nor a level afterwards, and
\* neither is any resting order it filled completely.
C16_AcceptedAndConsumed ==
    [][Accepted
       => /\ call'.result
          /\ SumTrades(trades') = call'.order.quantity
                => call'.order.orderId \notin orders_' \cup Leveled(bids_') \cup Leveled(asks_')
          /\ \A k \in DOMAIN steps' :
                steps'[k].restingAfter = 0
                    => steps'[k].resting \notin orders_' \cup Leveled(bids_') \cup Leveled(asks_')]_vars

\* An added order was consumed entirely, filling a resting order completely.
C16_Witness ==
    /\ call.op = "addOrder" /\ call.result
    /\ SumTrades(trades) = call.order.quantity
    /\ \E k \in DOMAIN steps : steps[k].restingAfter = 0
    /\ getOrderCount(orders_) >= 1

\* C17: when addOrder of an order of quantity Q returns, the order rests with
\* Q minus the quantities traded in the call (not at all when that is 0), at
\* its own price on its own side, and the quantity resting on the opposite
\* side is smaller by the quantities traded.
C17_CallConservation ==
    [][Accepted
       => LET o == call'.order
              id == o.orderId
              traded == SumTrades(trades')
              residual == o.quantity - traded
              opposite == IF o.side = "BUY" THEN asks_ ELSE bids_
              oppositeAfter == IF o.side = "BUY" THEN asks_' ELSE bids_'
              own == IF o.side = "BUY" THEN bids_' ELSE asks_'
          IN  /\ residual >= 0
              /\ (id \in orders_') = (residual > 0)
              /\ id \in orders_' => /\ pool'[id].quantity = residual
                                    /\ pool'[id].price = o.price
                                    /\ pool'[id].side = o.side
                                    /\ o.price \in DOMAIN own
                                    /\ id \in Range(own[o.price])
              /\ SumQuantity(pool', Leveled(oppositeAfter))
                    = SumQuantity(pool, Leveled(opposite)) - traded]_vars

\* An added order has traded and rests with the remainder.
C17_Witness ==
    /\ call.op = "addOrder" /\ call.result
    /\ Len(trades) >= 1
    /\ call.orderId \in orders_
    /\ pool[call.orderId].quantity < call.order.quantity

\* The book as the call left it.
After ==
    Book(pool', orders_', bids_', asks_', tradeCallback_', trades', delivered',
         steps', call'.threw)

\* What modifyOrder(X, p, q) can leave, and what cancelOrder(X) followed by
\* addOrder of an Order newly constructed with X's id and side, price p and
\* quantity q can leave.
ModifyOutcomes(X, p, q) ==
    {Release(m.book) : m \in modifyOrder(Current, X, p, q, clock)}

CancelThenAddOutcomes(X, p, q) ==
    UNION {{Release(a.book) :
                a \in addOrder(c.book, Order(X, pool[X].side, p, q, clock))} :
           c \in cancelOrder(Current, X)}

\* C18: modifyOrder(X, p, q) with X resting and q >= 1 yields the trades and
\* the book of cancelOrder(X) followed by addOrder of a new order with X's id
\* and side, price p and quantity q.
C18_ModifyIsCancelThenAdd ==
    [][(/\ call'.op = "modifyOrder"
        /\ call'.orderId \in orders_
        /\ call'.newQuantity >= 1)
       => /\ call'.result
          /\ After \in CancelThenAddOutcomes(call'.orderId, call'.newPrice,
                                             call'.newQuantity)
          /\ ModifyOutcomes(call'.orderId, call'.newPrice, call'.newQuantity)
                = CancelThenAddOutcomes(call'.orderId, call'.newPrice,
                                        call'.newQuantity)]_vars

\* modifyOrder has moved an order to a price that crosses, and it traded.
C18_Witness ==
    /\ call.op = "modifyOrder" /\ call.result
    /\ call.newQuantity >= 1
    /\ trades # <<>>

\* C19: modifyOrder resets the time priority: an order X that rests after
\* modifyOrder keeps its id and side and is the last order of its level.
C19_ModifyGoesLast ==
    [][(/\ call'.op = "modifyOrder"
        /\ call'.orderId \in orders_
        /\ call'.orderId \in orders_')
       => LET X == call'.orderId
              level == MapAt(IF pool'[X].side = "BUY" THEN bids_' ELSE asks_',
                             pool'[X].price)
          IN  /\ pool'[X].orderId = X
              /\ pool'[X].side = pool[X].side
              /\ level # <<>>
              /\ level[Len(level)] = X]_vars

\* C20: the trades an addOrder or modifyOrder call generates are handed to the
\* registered callback during the call, once each and in the order matching
\* generated them; no other operation hands over a trade.
C20_TradesDelivered ==
    IF call.op \in {"addOrder", "modifyOrder"} /\ tradeCallback_ # NoCallback
    THEN delivered = [k \in 1..Len(trades) |-> Delivery(tradeCallback_, trades[k])]
    ELSE delivered = <<>>

\* A call with a callback registered has generated two trades and handed
\* both over.
C20_Witness ==
    /\ call.op \in {"addOrder", "modifyOrder"}
    /\ tradeCallback_ # NoCallback
    /\ Len(trades) = 2
    /\ Len(delivered) = 2
    /\ trades[1] # trades[2]

\* C21: one observer at a time: setTradeCallback(callback) makes callback the
\* registered observer, whatever was registered before, and changes no order,
\* level or index entry; no other operation changes the registration; and
\* every trade is delivered to the registered observer and to no other.
C21_OneObserver ==
    [][/\ call'.op = "setTradeCallback"
          => /\ tradeCallback_' = call'.callback
             /\ pool' = pool /\ orders_' = orders_
             /\ bids_' = bids_ /\ asks_' = asks_
             /\ NoTrade
       /\ call'.op # "setTradeCallback" => tradeCallback_' = tradeCallback_
       /\ \A k \in DOMAIN delivered' : delivered'[k].to = tradeCallback_']_vars

\* f was registered, then g in its place, and a later call has traded: the
\* trade went to g.
C21_Witness ==
    /\ replaced = "f" /\ tradeCallback_ = "g"
    /\ Matching
    /\ delivered # <<>>
    /\ \A k \in DOMAIN delivered : delivered[k].to = "g"

\* The prices of the orders of a side that rest in the book.
RestingPrices(side) == {pool[o].price : o \in {x \in orders_ : pool[x].side = side}}

\* C22: getBestBid() is std::nullopt exactly when no BUY order rests, and is
\* otherwise the highest price of a resting BUY order; getBestAsk() is
\* std::nullopt exactly when no SELL order rests, and is otherwise the lowest
\* price of a resting SELL order.
C22_BestPrices ==
    /\ getBestBid(bids_) = None <=> RestingPrices("BUY") = {}
    /\ RestingPrices("BUY") # {} => getBestBid(bids_) = SetMax(RestingPrices("BUY"))
    /\ getBestAsk(asks_) = None <=> RestingPrices("SELL") = {}
    /\ RestingPrices("SELL") # {} => getBestAsk(asks_) = SetMin(RestingPrices("SELL"))

\* An order was cancelled and BUY orders still rest at two prices.
C22_Witness ==
    /\ call.op = "cancelOrder" /\ call.result
    /\ Cardinality(RestingPrices("BUY")) = 2
    /\ getBestBid(bids_) = MaxPrice

\* C23: getSpread() is std::nullopt exactly when no BUY order rests or no SELL
\* order rests, and is otherwise getBestAsk() - getBestBid().
C23_Spread ==
    /\ getSpread(bids_, asks_) = Absent
          <=> (RestingPrices("BUY") = {} \/ RestingPrices("SELL") = {})
    /\ getSpread(bids_, asks_) # Absent
          => getSpread(bids_, asks_) = Some(getBestAsk(asks_) - getBestBid(bids_))

\* Both sides hold orders and the best ask is above the best bid.
C23_Witness ==
    /\ RestingPrices("BUY") # {} /\ RestingPrices("SELL") # {}
    /\ getSpread(bids_, asks_) = Some(1)

\* C24: getDepthAtPrice(p, side) is the sum of the quantities the orders of
\* the index with that side and price have now (0 when there is none).
C24_DepthIsSum ==
    \A side \in Sides : \A p \in Prices :
        getDepthAtPrice(pool, bids_, asks_, p, side)
            = SumQuantity(pool, {o \in orders_ :
                                    pool[o].side = side /\ pool[o].price = p})

\* C25: clear() empties the index and both ledgers whatever the book holds:
\* afterwards getOrderCount() is 0, getBestBid(), getBestAsk() and getSpread()
\* are std::nullopt, getDepthAtPrice is 0 everywhere, and addOrder accepts an
\* order of any identifier, those used before included.
C25_ClearEmptiesAll ==
    [][call'.op = "clear"
       => /\ orders_' = {} /\ bids_' = <<>> /\ asks_' = <<>>
          /\ getOrderCount(orders_') = 0
          /\ getBestBid(bids_') = None
          /\ getBestAsk(asks_') = None
          /\ getSpread(bids_', asks_') = Absent
          /\ \A side \in Sides : \A p \in Prices :
                getDepthAtPrice(pool', bids_', asks_', p, side) = 0
          /\ \A order \in Orders(clock) :
                order.quantity > 0
                    => \A out \in addOrder(After, order) :
                          /\ out.result
                          /\ order.orderId \in out.book.orders_]_vars

\* clear() was called on a book holding two orders or more.
C25_Witness ==
    /\ call.op = "clear"
    /\ call.count >= 2
    /\ orders_ = {}

\* C26: at the end of testBasicOrderAddition every addOrder has returned
\* true, getOrderCount() is 6, getBestAsk() is 100.75 and getSpread() is 0.
C26_BasicOrderAdditionAsserts ==
    Finished("testBasicOrderAddition")
        => /\ \A k \in DOMAIN test.results : test.results[k]
           /\ getOrderCount(orders_) = 6
           /\ getBestAsk(asks_) = 10075
           /\ getSpread(bids_, asks_) = Some(0)

\* C27: at the end of testPriceTimePriority, after the SELL of 50 and the SELL
\* of 75 against three BUY orders of 100 at one price, the observer has
\* counted 2 trades in all.
C27_PriceTimePriorityTradeCount ==
    Finished("testPriceTimePriority") => test.tradeCount = 2

\* C28: strong exception guarantee: when the trade callback throws during
\* addOrder or modifyOrder, the index and the ledgers are as they were before
\* the call: no order inserted, no price, quantity or position changed.
C28_StrongExceptionGuarantee ==
    [][(call'.op \in {"addOrder", "modifyOrder"} /\ call'.threw)
       => /\ pool' = pool
          /\ orders_' = orders_
          /\ bids_' = bids_
          /\ asks_' = asks_]_vars

\* C29: a partially filled resting order keeps its place: the call that
\* partially fills the head of a level leaves the level as it was, the order
\* at its head with the remaining quantity; and a call that trades at a level
\* trades first with the order at the head of that level, for the quantity
\* that order has left.
C29_PartialFillKeepsPosition ==
    [][(call'.op \in {"addOrder", "modifyOrder"} /\ call'.result)
       => \A k \in DOMAIN steps' :
            LET st == steps'[k]
                before == MapAt(IF st.side = "BUY" THEN asks_ ELSE bids_,
                                st.oppositePrice)
                after == MapAt(IF st.side = "BUY" THEN asks_' ELSE bids_',
                               st.oppositePrice)
            IN  /\ (k = 1 \/ steps'[k - 1].oppositePrice # st.oppositePrice)
                      => /\ st.level = before
                         /\ st.resting = Head(before)
                         /\ st.restingQuantity = pool[Head(before)].quantity
                /\ st.restingAfter > 0
                      => /\ after = st.level
                         /\ Head(after) = st.resting
                         /\ pool'[st.resting].quantity = st.restingAfter
                         /\ st.restingAfter = st.restingQuantity - st.tradeQuantity]_vars

\* The head of a level holding two orders or more was partially filled and is
\* still at the head, with the rest of its quantity.
C29_Witness ==
    /\ Matching /\ steps # <<>>
    /\ LET st == steps[Len(steps)]
           level == MapAt(Ledger(st.restingSide), st.restingPrice)
       IN  /\ st.restingAfter > 0
           /\ st.restingAfter < st.restingQuantity
           /\ Len(level) >= 2
           /\ Head(level) = st.resting

\* C30: after every call, the orders of every price level are in
\* non-decreasing order of timestamp.
C30_LevelsSorted ==
    \A side \in Sides : \A p \in DOMAIN Ledger(side) :
        \A i \in 1..(Len(Ledger(side)[p]) - 1) :
            pool[Ledger(side)[p][i]].timestamp
                <= pool[Ledger(side)[p][i + 1]].timestamp

\* modifyOrder has put an order, with its new timestamp, into a level behind
\* an order with an earlier one.
C30_Witness ==
    /\ call.op = "modifyOrder" /\ call.result
    /\ call.orderId \in orders_
    /\ \E side \in Sides : \E p \in DOMAIN Ledger(side) :
          /\ Len(Ledger(side)[p]) >= 2
          /\ Ledger(side)[p][Len(Ledger(side)[p])] = call.orderId
          /\ pool[Ledger(side)[p][1]].timestamp < pool[call.orderId].timestamp

\* The orders of a side that rest in the book.
RestingOn(side) == {o \in orders_ : pool[o].side = side}

\* The trades of an outcome are against distinct orders that rested on the
\* side opposite to `side` when the call started.
BoundedTrades(out, side) ==
    /\ Len(out.book.trades) <= Cardinality(RestingOn(OppositeOf(side)))
    /\ Len(out.book.steps) = Len(out.book.trades)
    /\ \A k \in DOMAIN out.book.steps :
          out.book.steps[k].resting \in RestingOn(OppositeOf(side))
    /\ \A i, j \in DOMAIN out.book.steps :
          i # j => out.book.steps[i].resting # out.book.steps[j].resting

\* C31: every addOrder and modifyOrder call comes to an end with an outcome,
\* and the trades it makes are against distinct orders that rested on the
\* opposite side when it started, so they are at most as many as those.
C31_BoundedMatching ==
    Idle
    => /\ \A order \in Orders(clock) \cup {NullOrder} :
             /\ addOrder(Current, order) # {}
             /\ \A out \in addOrder(Current, order) :
                   out.result => BoundedTrades(out, order.side)
       /\ \A orderId \in OrderIds, newPrice \in Prices, newQuantity \in Quantities :
             /\ modifyOrder(Current, orderId, newPrice, newQuantity, clock) # {}
             /\ \A out \in modifyOrder(Current, orderId, newPrice, newQuantity, clock) :
                   out.result => BoundedTrades(out, pool[orderId].side)

\* A call has traded with every order that rested on the opposite side: two
\* trades, both resting orders filled, none left on that side.
C31_Witness ==
    /\ Matching
    /\ Len(trades) = 2
    /\ \A k \in DOMAIN steps : steps[k].restingAfter = 0
    /\ RestingOn(steps[1].restingSide) = {}

\* C32: every order resting in the book has a limit price above 0, whatever
\* prices addOrder and modifyOrder were called with.
C32_PositivePrices ==
    \A o \in orders_ : pool[o].price > 0

C34_ModifyToZeroCancels ==
    [][(/\ call'.op = "modifyOrder"
        /\ call'.orderId \in orders_
        /\ call'.newQuantity = 0)
       => /\ call'.result /\ ~call'.threw
          /\ NoTrade
          /\ call'.orderId \notin orders_' \cup Leveled(bids_') \cup Leveled(asks_')
          /\ \A o \in orders_' \cup Leveled(bids_') \cup Leveled(asks_') :
                pool'[o].quantity > 0
          /\ \A p \in DOMAIN bids_' : bids_'[p] # <<>>
          /\ \A p \in DOMAIN asks_' : asks_'[p] # <<>>
          /\ \E c \in cancelOrder(Current, call'.orderId) :
                /\ c.result
                /\ pool' = Release(c.book).pool
                /\ orders_' = c.book.orders_
                /\ DOMAIN bids_' = DOMAIN c.book.bids_
                /\ DOMAIN asks_' = DOMAIN c.book.asks_
                /\ \A p \in DOMAIN bids_' :
                      /\ Range(bids_'[p]) = Range(c.book.bids_[p])
                      /\ Len(bids_'[p]) = Len(c.book.bids_[p])
                /\ \A p \in DOMAIN asks_' :
                      /\ Range(asks_'[p]) = Range(c.book.asks_[p])
                      /\ Len(asks_'[p]) = Len(c.book.asks_[p])]_vars

\* modifyOrder was called with quantity 0 and a price that crosses the best
\* price of the opposite side.
C34_Witness ==
    /\ call.op = "modifyOrder" /\ call.result
    /\ call.newQuantity = 0
    /\ \/ /\ call.side = "BUY"
          /\ DOMAIN asks_ # {}
          /\ call.newPrice >= getBestAsk(asks_)
       \/ /\ call.side = "SELL"
          /\ DOMAIN bids_ # {}
          /\ call.newPrice <= getBestBid(bids_)

\* The order an accepted addOrder or modifyOrder call was about, and its side.
Incoming == call'.orderId
IncomingSide == IF call'.op = "addOrder" THEN call'.order.side ELSE call'.side

Named(ts, o) == \E k \in DOMAIN ts : ts[k].buyOrderId = o \/ ts[k].sellOrderId = o

\* C35: during addOrder or modifyOrder of order X on side S, every other
\* order of side S keeps its price, its quantity and its place relative to
\* the others of its level, and on the opposite side only the orders named in
\* a trade of the call change quantity or leave the book.
C35_Frame ==
    [][(call'.op \in {"addOrder", "modifyOrder"} /\ call'.result)
       => /\ \A o \in RestingOn(IncomingSide) \ {Incoming} :
                /\ o \in orders_'
                /\ pool'[o] = pool[o]
          /\ \A p \in Prices :
                Without(MapAt(IF IncomingSide = "BUY" THEN bids_' ELSE asks_', p),
                        Incoming)
                  = Without(MapAt(IF IncomingSide = "BUY" THEN bids_ ELSE asks_, p),
                            Incoming)
          /\ \A o \in RestingOn(OppositeOf(IncomingSide)) :
                \/ Named(trades', o)
                \/ /\ o \in orders_'
                   /\ pool'[o] = pool[o]]_vars
====
